---- MODULE Spec2Model ----
(***************************************************************************)
(* Modbus Serial Line/RTU client (package modbusclient, rtu.go).           *)
(*                                                                         *)
(* The module models the checksum engine (crc), the frame codec            *)
(* (RTUFrame.GenerateRTUFrame) and the transaction protocol                *)
(* (RTUContext.viaRTU, entered through RTURead and RTUWrite).  A           *)
(* transaction is a blocking call; its position between the transport      *)
(* calls is the program counter pc of the calling thread.                  *)
(***************************************************************************)
EXTENDS Integers, Sequences, FiniteSets, TLC

(***************************************************************************)
(* Bounds of the model.                                                    *)
(***************************************************************************)
\* Longest run of reply bytes between the two header bytes and the checksum.
MaxTail == 2

(***************************************************************************)
(* Constants of the package that rtu.go uses.                              *)
(***************************************************************************)
RTU_FRAME_MAXSIZE == 512

FUNCTION_READ_COILS == 1
FUNCTION_READ_DISCRETE_INPUTS == 2
FUNCTION_READ_HOLDING_REGISTERS == 3
FUNCTION_READ_INPUT_REGISTERS == 4
FUNCTION_WRITE_SINGLE_COIL == 5
FUNCTION_WRITE_SINGLE_REGISTER == 6
FUNCTION_WRITE_MULTIPLE_REGISTERS == 16

EXCEPTION_UNSPECIFIED == 0
EXCEPTION_ILLEGAL_FUNCTION == 1
EXCEPTION_DATA_ADDRESS == 2
EXCEPTION_DATA_VALUE == 3
EXCEPTION_SLAVE_DEVICE_FAILURE == 4
EXCEPTION_BAD_CHECKSUM == 255

\* The error value of each exception code; nil is the absent error.
MODBUS_EXCEPTIONS ==
    [c \in {EXCEPTION_UNSPECIFIED, EXCEPTION_ILLEGAL_FUNCTION, EXCEPTION_DATA_ADDRESS,
            EXCEPTION_DATA_VALUE, EXCEPTION_SLAVE_DEVICE_FAILURE, EXCEPTION_BAD_CHECKSUM} |->
        CASE c = EXCEPTION_ILLEGAL_FUNCTION -> "illegal function"
          [] c = EXCEPTION_DATA_ADDRESS -> "illegal data address"
          [] c = EXCEPTION_DATA_VALUE -> "illegal data value"
          [] c = EXCEPTION_SLAVE_DEVICE_FAILURE -> "slave device failure"
          [] c = EXCEPTION_BAD_CHECKSUM -> "bad checksum"
          [] OTHER -> "unspecified"]

ValidReadFunction(fnCode) ==
    fnCode \in {FUNCTION_READ_COILS, FUNCTION_READ_DISCRETE_INPUTS,
                FUNCTION_READ_HOLDING_REGISTERS, FUNCTION_READ_INPUT_REGISTERS}

ValidWriteFunction(fnCode) ==
    fnCode \in {FUNCTION_WRITE_SINGLE_COIL, FUNCTION_WRITE_SINGLE_REGISTER,
                FUNCTION_WRITE_MULTIPLE_REGISTERS}

(***************************************************************************)
(* Bit operations on unsigned integers.                                    *)
(***************************************************************************)
\* a ^ b
RECURSIVE BitXor(_, _)
BitXor(a, b) ==
    IF a = 0 THEN b
    ELSE IF b = 0 THEN a
    ELSE (((a % 2) + (b % 2)) % 2) + 2 * BitXor(a \div 2, b \div 2)

\* x with the bit of weight w inverted
ToggleBit(x, w) == IF (x \div w) % 2 = 1 THEN x - w ELSE x + w

\* x ^ 0xA001 on 16 bits: 0xA001 has the bits of weight 32768, 8192 and 1
XorA001(x) == ToggleBit(ToggleBit(ToggleBit(x, 1), 8192), 32768)

(***************************************************************************)
(* crc: the checksum engine.                                               *)
(***************************************************************************)
\* One round of the inner loop (j): shift right, and xor the polynomial in
\* when the bit shifted out was set.
crcShift(crc16) ==
    IF crc16 % 2 = 1 THEN XorA001(crc16 \div 2) ELSE crc16 \div 2

\* One round of the outer loop (i): xor the byte in, then eight shifts.
crcByte(crc16, b) ==
    crcShift(crcShift(crcShift(crcShift(
    crcShift(crcShift(crcShift(crcShift(BitXor(crc16, b)))))))))

\* The outer loop over data[lo..hi] starting from crc16, the range split in
\* halves so that the evaluation depth stays logarithmic in its length.
RECURSIVE crcRange(_, _, _, _)
crcRange(data, lo, hi, crc16) ==
    IF lo > hi \/ crc16 < 0 THEN crc16
    ELSE IF lo = hi THEN crcByte(crc16, data[lo])
    ELSE LET mid == (lo + hi) \div 2
         IN  crcRange(data, mid + 1, hi, crcRange(data, lo, mid, crc16))

\* Mutant: the checksum register starts from zero.
crcInitZero(data) == crcRange(data, 1, Len(data), 0)

\* crc16 := 0xffff, then the outer loop over all of data.
crc(data) == crcRange(data, 1, Len(data), 65535)

(***************************************************************************)
(* GenerateRTUFrame: the frame codec.  The result is the ADU, or a panic   *)
(* when an index or a slice bound leaves the packet buffer.                *)
(***************************************************************************)
Encoded(bytes) == [panic |-> FALSE, adu |-> bytes]
EncodePanic == [panic |-> TRUE, adu |-> <<>>]

\* Mutant: the single-register write code left out of the case.
InsertNumOfRegisterCoilOnly(functionCode) ==
    functionCode \notin {FUNCTION_WRITE_SINGLE_COIL}

\* The switch on frame.FunctionCode: whether the count field is present.
InsertNumOfRegister(functionCode) ==
    functionCode \notin {FUNCTION_WRITE_SINGLE_COIL, FUNCTION_WRITE_SINGLE_REGISTER}

\* The switch on frame.FunctionCode: whether the length byte is present.
InsertDataLen(functionCode) == functionCode = FUNCTION_WRITE_MULTIPLE_REGISTERS

\* Mutant: the checksum appended high byte first.
AddCrcHighFirst(packet) ==
    LET packetCrc == crc(packet)
    IN  packet \o << packetCrc \div 256, packetCrc % 256 >>

\* "add the crc to the end": the checksum of the bytes used, low byte first.
AddCrc(packet) ==
    LET packetCrc == crc(packet)
    IN  packet \o << packetCrc % 256, packetCrc \div 256 >>

GenerateRTUFrame(frame) ==
    LET insertNumOfRegister == InsertNumOfRegister(frame.FunctionCode)
        insertDataLen == InsertDataLen(frame.FunctionCode)
        dataLen == Len(frame.Data)
        packetLen == IF dataLen > 0 THEN RTU_FRAME_MAXSIZE ELSE 9
        header == << frame.SlaveAddress, frame.FunctionCode,
                     (frame.StartRegister \div 256) % 256,
                     frame.StartRegister % 256 >>
        withNum == IF insertNumOfRegister
                   THEN header \o << (frame.NumberOfRegisters \div 256) % 256,
                                     frame.NumberOfRegisters % 256 >>
                   ELSE header
        withLen == IF insertDataLen THEN withNum \o << dataLen % 256 >> ELSE withNum
        packet == withLen \o frame.Data
        bytesUsed == Len(packet)
    IN  IF bytesUsed + 2 > packetLen
        THEN EncodePanic
        ELSE Encoded(AddCrc(packet))

(***************************************************************************)
(* Inputs of the model.                                                    *)
(***************************************************************************)
\* The thread of the single-threaded caller, and a second caller thread.
MainThread == "main"
Threads == {"main", "second"}

\* Slave addresses a connection may be configured with.
AddrSet == {0, 17}

\* Function codes a caller may submit: the four read codes, the three write
\* layouts, and two codes no validator admits.
FuncSet == {1, 2, 3, 4, 5, 6, 16, 43, 131}

\* (startRegister, numRegisters) pairs a caller may submit.
RegSet == { <<107, 3>>, <<363, 258>> }

\* Payloads a caller may submit.
DataSet == { <<>>, <<255, 0>>, <<0, 10, 1, 2>> }

\* A payload of k bytes.
LongData(k) == [i \in 1..k |-> (i * 7) % 256]

\* Payloads a caller of the codec may put in a frame: those above, one whose
\* length no longer fits one byte, the longest one every layout encodes, the
\* longest one the layout with a length byte encodes, the longest one any
\* layout encodes, and one no layout encodes.
CodecDataSet ==
    DataSet \cup { LongData(256),
                   LongData(RTU_FRAME_MAXSIZE - 9),
                   LongData(RTU_FRAME_MAXSIZE - 8),
                   LongData(RTU_FRAME_MAXSIZE - 6),
                   LongData(RTU_FRAME_MAXSIZE - 5) }

NoFrame == [SlaveAddress |-> 0, FunctionCode |-> 0, StartRegister |-> 0,
            NumberOfRegisters |-> 0, Data |-> <<>>]
NoArgs == [fnValidator |-> "none", functionCode |-> 0, startRegister |-> 0,
           numRegisters |-> 0, data |-> <<>>]
NoRet == [bytes |-> <<>>, err |-> "none"]

VARIABLES
    ctx,        \* RTUContext: the configuration of the open connection
    pc,         \* pc[t]: position of thread t in its transaction
    args,       \* args[t]: the arguments of the call to viaRTU
    frame,      \* frame[t]: the RTUFrame of the transaction
    adu,        \* adu[t]: the encoded ADU
    io,         \* io[t]: the transport calls made so far by the current call
    response,   \* response[t]: the bytes the transport read stored (response[:n])
    ret,        \* ret[t]: the (bytes, error) pair returned to the caller
    log,        \* log[t]: the lines logged by the current call
    line        \* the serial line: the requests written and not yet answered to a read

vars == << ctx, pc, args, frame, adu, io, response, ret, log, line >>

(***************************************************************************)
(* viaRTU: classification of the reply (the code after the read).          *)
(***************************************************************************)
\* response[i] of the buffer make([]byte, RTU_FRAME_MAXSIZE) after the read
\* stored the received bytes at its start: the rest is zero.
At(received, i) == IF i < Len(received) THEN received[i + 1] ELSE 0

Result(bytes, err, lines) == [bytes |-> bytes, err |-> err, panic |-> FALSE, log |-> lines]
Panic(lines) == [bytes |-> <<>>, err |-> "panic", panic |-> TRUE, log |-> lines]

\* Mutant: the case of EXCEPTION_DATA_ADDRESS returns the next entry.
ExceptionOfShifted(code) ==
    CASE code = EXCEPTION_ILLEGAL_FUNCTION -> MODBUS_EXCEPTIONS[EXCEPTION_ILLEGAL_FUNCTION]
      [] code = EXCEPTION_DATA_ADDRESS -> MODBUS_EXCEPTIONS[EXCEPTION_DATA_VALUE]
      [] code = EXCEPTION_DATA_VALUE -> MODBUS_EXCEPTIONS[EXCEPTION_DATA_VALUE]
      [] code = EXCEPTION_SLAVE_DEVICE_FAILURE -> MODBUS_EXCEPTIONS[EXCEPTION_SLAVE_DEVICE_FAILURE]
      [] OTHER -> MODBUS_EXCEPTIONS[EXCEPTION_UNSPECIFIED]

\* The switch on response[2] of an exception reply.
ExceptionOf(code) ==
    CASE code = EXCEPTION_ILLEGAL_FUNCTION -> MODBUS_EXCEPTIONS[EXCEPTION_ILLEGAL_FUNCTION]
      [] code = EXCEPTION_DATA_ADDRESS -> MODBUS_EXCEPTIONS[EXCEPTION_DATA_ADDRESS]
      [] code = EXCEPTION_DATA_VALUE -> MODBUS_EXCEPTIONS[EXCEPTION_DATA_VALUE]
      [] code = EXCEPTION_SLAVE_DEVICE_FAILURE -> MODBUS_EXCEPTIONS[EXCEPTION_SLAVE_DEVICE_FAILURE]
      [] OTHER -> MODBUS_EXCEPTIONS[EXCEPTION_UNSPECIFIED]

\* fc | 0x80
HighBitSet(fc) == IF fc >= 128 THEN fc ELSE fc + 128

\* Mutant: the exception branch does not compare the address again.
InvalidResponseNoAddr(fr, received) ==
    IF (At(received, 1) % 128) = fr.FunctionCode
    THEN Result(<<>>, ExceptionOf(At(received, 2)), <<"RTU Response Invalid">>)
    ELSE Result(<<>>, MODBUS_EXCEPTIONS[EXCEPTION_UNSPECIFIED], <<"RTU Response Invalid">>)

\* Mutant: the received bytes are returned with the exception.
InvalidResponseWithBytes(fr, received) ==
    IF At(received, 0) = fr.SlaveAddress /\ (At(received, 1) % 128) = fr.FunctionCode
    THEN Result(received, ExceptionOf(At(received, 2)), <<"RTU Response Invalid">>)
    ELSE Result(received, MODBUS_EXCEPTIONS[EXCEPTION_UNSPECIFIED], <<"RTU Response Invalid">>)

\* "check the validity of the response": the outcome when address or
\* function code do not match.
InvalidResponse(fr, received) ==
    IF At(received, 0) = fr.SlaveAddress /\ (At(received, 1) % 128) = fr.FunctionCode
    THEN Result(<<>>, ExceptionOf(At(received, 2)), <<"RTU Response Invalid">>)
    ELSE Result(<<>>, MODBUS_EXCEPTIONS[EXCEPTION_UNSPECIFIED], <<"RTU Response Invalid">>)

\* Mutant: the checksum bytes compared high byte first.
ConfirmChecksumHighFirst(received) ==
    LET n == Len(received)
    IN  IF n < 2 THEN Panic(<<>>)
        ELSE LET responseCrc == crc(SubSeq(received, 1, n - 2))
             IN  IF At(received, n - 2) # responseCrc \div 256
                    \/ At(received, n - 1) # responseCrc % 256
                 THEN Result(received, MODBUS_EXCEPTIONS[EXCEPTION_BAD_CHECKSUM],
                             <<"RTU Response Invalid: Bad Checksum">>)
                 ELSE Result(received, "nil", <<>>)

\* Mutant: the checksum fails only when both of its bytes differ.
ConfirmChecksumBoth(received) ==
    LET n == Len(received)
    IN  IF n < 2 THEN Panic(<<>>)
        ELSE LET responseCrc == crc(SubSeq(received, 1, n - 2))
             IN  IF At(received, n - 2) # responseCrc % 256
                    /\ At(received, n - 1) # responseCrc \div 256
                 THEN Result(received, MODBUS_EXCEPTIONS[EXCEPTION_BAD_CHECKSUM],
                             <<"RTU Response Invalid: Bad Checksum">>)
                 ELSE Result(received, "nil", <<>>)

\* Mutant: only the high checksum byte is compared.
ConfirmChecksumHighOnly(received) ==
    LET n == Len(received)
    IN  IF n < 2 THEN Panic(<<>>)
        ELSE LET responseCrc == crc(SubSeq(received, 1, n - 2))
             IN  IF At(received, n - 1) # responseCrc \div 256
                 THEN Result(received, MODBUS_EXCEPTIONS[EXCEPTION_BAD_CHECKSUM],
                             <<"RTU Response Invalid: Bad Checksum">>)
                 ELSE Result(received, "nil", <<>>)

\* "confirm the checksum (crc)": response[:(n-2)] panics for n < 2.
ConfirmChecksum(received) ==
    LET n == Len(received)
    IN  IF n < 2 THEN Panic(<<>>)
        ELSE LET responseCrc == crc(SubSeq(received, 1, n - 2))
             IN  IF At(received, n - 2) # responseCrc % 256
                    \/ At(received, n - 1) # responseCrc \div 256
                 THEN Result(received, MODBUS_EXCEPTIONS[EXCEPTION_BAD_CHECKSUM],
                             <<"RTU Response Invalid: Bad Checksum">>)
                 ELSE Result(received, "nil", <<>>)

\* Mutant: the checksum is confirmed before address and function code.
CheckResponseCrcFirst(fr, received) ==
    LET checked == ConfirmChecksum(received)
    IN  IF checked.panic \/ checked.err # "nil"
        THEN checked
        ELSE IF At(received, 0) # fr.SlaveAddress \/ At(received, 1) # fr.FunctionCode
             THEN InvalidResponse(fr, received)
             ELSE checked

\* Mutant: the function code is not compared before the checksum step.
CheckResponseAddrOnly(fr, received) ==
    IF At(received, 0) # fr.SlaveAddress
    THEN InvalidResponse(fr, received)
    ELSE ConfirmChecksum(received)

\* if response[0] != frame.SlaveAddress || response[1] != frame.FunctionCode
CheckResponse(fr, received) ==
    IF At(received, 0) # fr.SlaveAddress \/ At(received, 1) # fr.FunctionCode
    THEN InvalidResponse(fr, received)
    ELSE ConfirmChecksum(received)

(***************************************************************************)
(* The transport (serial.Port), an external collaborator: what a read may  *)
(* deliver for a request sent to slave addr with function code fc.         *)
(***************************************************************************)
OtherAddr(addr) == CHOOSE a \in AddrSet : a # addr
OtherFunc(fc) == (fc % 127) + 1

\* k filler bytes
RECURSIVE Fill(_)
Fill(k) == IF k = 0 THEN <<>> ELSE <<42>> \o Fill(k - 1)

\* First byte after the two header bytes: the exception codes and two others.
TailFirst == {0, 1, 2, 3, 4, 255}
Tails == {<<>>} \cup { <<e>> \o Fill(k) : e \in TailFirst, k \in 0..(MaxTail - 1) }

Heads(addr, fc) ==
    { <<a, f>> : a \in {addr, OtherAddr(addr)},
                 f \in {fc, (fc + 128) % 256, OtherFunc(fc), OtherFunc(fc) + 128} }

\* body followed by its checksum, low byte first, each byte shifted by dlo, dhi
Sealed(body, dlo, dhi) ==
    LET c == crc(body)
    IN  body \o << ((c % 256) + dlo) % 256, ((c \div 256) + dhi) % 256 >>

\* Replies shorter than the smallest frame whose last two bytes are the
\* checksum of what precedes them, and a reply whose third byte is the high
\* checksum byte of its first.
ShortSealed(addr, fc) ==
    { Sealed(<<>>, 0, 0), Sealed(<<addr>>, 0, 0), <<addr, fc, crc(<<addr>>) \div 256>> }

\* Slave addresses for which the transport may fill the whole buffer.
FullAddrSet == AddrSet \cup {255}

\* Replies that fill the whole response buffer, with a good and a bad checksum.
FullReplies(addr, fc) ==
    IF addr \in FullAddrSet
    THEN { Sealed(<<addr, fc>> \o LongData(RTU_FRAME_MAXSIZE - 4), d, 0) : d \in {0, 1} }
    ELSE {}

Replies(addr, fc) ==
    LET bodies == { h \o tl : h \in Heads(addr, fc), tl \in Tails }
    IN  {<<>>, <<addr>>, <<OtherAddr(addr)>>}
        \cup bodies
        \cup { Sealed(b, d[1], d[2]) : b \in bodies, d \in {<<0, 0>>, <<1, 0>>, <<0, 1>>} }
        \cup ShortSealed(addr, fc)
        \cup FullReplies(addr, fc)

\* What the buffer may hold when the read reports an error.
FailedReads(addr, fc) == { <<>>, Sealed(<<addr, fc>>, 0, 0) }

(***************************************************************************)
(* viaRTU: the transaction, one action per stretch between transport calls *)
(***************************************************************************)
\* Mutant: a function code valid for either operation is admitted.
AdmittedEither(fnValidator, functionCode) ==
    ValidReadFunction(functionCode) \/ ValidWriteFunction(functionCode)

\* if fnValidator(functionCode)
Admitted(fnValidator, functionCode) ==
    IF fnValidator = "ValidReadFunction"
    THEN ValidReadFunction(functionCode)
    ELSE ValidWriteFunction(functionCode)

\* A call on the transport (or the settle delay) and the error it returned.
IO(call, err) == [call |-> call, err |-> err]

Logged(t, lines) == IF ctx.Debug THEN log[t] \o lines ELSE log[t]

\* Entry: admission, frame assembly and encoding.
viaRTU(t, fnValidator, functionCode, startRegister, numRegisters, data) ==
    /\ pc[t] = "idle"
    /\ args' = [args EXCEPT ![t] =
                    [fnValidator |-> fnValidator, functionCode |-> functionCode,
                     startRegister |-> startRegister, numRegisters |-> numRegisters,
                     data |-> data]]
    /\ IF Admitted(fnValidator, functionCode)
       THEN LET fr == [SlaveAddress |-> ctx.SlaveAddress,
                       FunctionCode |-> functionCode,
                       StartRegister |-> startRegister,
                       NumberOfRegisters |-> numRegisters,
                       Data |-> data]
                enc == GenerateRTUFrame(fr)
            IN  /\ frame' = [frame EXCEPT ![t] = fr]
                /\ adu' = [adu EXCEPT ![t] = enc.adu]
                /\ pc' = [pc EXCEPT ![t] = IF enc.panic THEN "panic" ELSE "write"]
                /\ log' = [log EXCEPT ![t] = IF enc.panic THEN log[t]
                                             ELSE Logged(t, <<"Tx">>)]
                /\ UNCHANGED ret
       ELSE /\ pc' = [pc EXCEPT ![t] = "done"]
            /\ ret' = [ret EXCEPT ![t] =
                          [bytes |-> <<>>,
                           err |-> MODBUS_EXCEPTIONS[EXCEPTION_ILLEGAL_FUNCTION]]]
            /\ UNCHANGED << frame, adu, log >>
    /\ UNCHANGED << ctx, io, response, line >>

RTURead(t) ==
    \E functionCode \in FuncSet, regs \in RegSet :
        viaRTU(t, "ValidReadFunction", functionCode, regs[1], regs[2], <<>>)

RTUWrite(t) ==
    \E functionCode \in FuncSet, regs \in RegSet, data \in DataSet :
        viaRTU(t, "ValidWriteFunction", functionCode, regs[1], regs[2], data)

\* The request thread t puts on the line: who wrote it, to which slave, with
\* which function code.
Request(t) ==
    [writer |-> t, addr |-> frame[t].SlaveAddress, fc |-> frame[t].FunctionCode]

\* The request the next read is the answer to: the oldest one on the line.
Answered(t) == IF line = <<>> THEN Request(t) ELSE Head(line)

\* Mutant: a call waits while another thread is between its write and its
\* read.
TransportWriteLocked(t) ==
    /\ pc[t] = "write"
    /\ \A u \in Threads \ {t} : pc[u] \notin {"sleep", "read"}
    /\ \E werr \in {"nil", "write error"} :
          /\ io' = [io EXCEPT ![t] = Append(io[t], IO("write", werr))]
          /\ IF werr # "nil"
             THEN /\ pc' = [pc EXCEPT ![t] = "done"]
                  /\ ret' = [ret EXCEPT ![t] = [bytes |-> <<>>, err |-> werr]]
                  /\ log' = [log EXCEPT ![t] = Logged(t, <<"RTU Write Err">>)]
                  /\ UNCHANGED line
             ELSE /\ pc' = [pc EXCEPT ![t] = "sleep"]
                  /\ line' = Append(line, Request(t))
                  /\ UNCHANGED << ret, log >>
    /\ UNCHANGED << ctx, args, frame, adu, response >>

\* Mutant: the call goes on after a failed write.
TransportWriteNoReturn(t) ==
    /\ pc[t] = "write"
    /\ \E werr \in {"nil", "write error"} :
          /\ io' = [io EXCEPT ![t] = Append(io[t], IO("write", werr))]
          /\ pc' = [pc EXCEPT ![t] = "sleep"]
          /\ log' = [log EXCEPT ![t] = IF werr # "nil"
                                       THEN Logged(t, <<"RTU Write Err">>)
                                       ELSE log[t]]
          /\ line' = IF werr # "nil" THEN line ELSE Append(line, Request(t))
    /\ UNCHANGED << ctx, args, frame, adu, response, ret >>

\* _, werr := rtu.Write(adu)
TransportWrite(t) ==
    /\ pc[t] = "write"
    /\ \E werr \in {"nil", "write error"} :
          /\ io' = [io EXCEPT ![t] = Append(io[t], IO("write", werr))]
          /\ IF werr # "nil"
             THEN /\ pc' = [pc EXCEPT ![t] = "done"]
                  /\ ret' = [ret EXCEPT ![t] = [bytes |-> <<>>, err |-> werr]]
                  /\ log' = [log EXCEPT ![t] = Logged(t, <<"RTU Write Err">>)]
                  /\ UNCHANGED line
             ELSE /\ pc' = [pc EXCEPT ![t] = "sleep"]
                  /\ line' = Append(line, Request(t))
                  /\ UNCHANGED << ret, log >>
    /\ UNCHANGED << ctx, args, frame, adu, response >>

\* time.Sleep(rtu.Timeout)
SettleDelay(t) ==
    /\ pc[t] = "sleep"
    /\ io' = [io EXCEPT ![t] = Append(io[t], IO("sleep", "nil"))]
    /\ pc' = [pc EXCEPT ![t] = "read"]
    /\ UNCHANGED << ctx, args, frame, adu, response, ret, log, line >>

\* Mutant: the read's error is not looked at.
AfterReadIgnoringErr(fr, received, rerr) == CheckResponse(fr, received)

\* Mutant: the return on a read error sits inside the "if rtu.Debug" block.
AfterReadReturnInDebug(fr, received, rerr) ==
    IF rerr # "nil" /\ ctx.Debug
    THEN Result(<<>>, rerr, <<"RTU Read Err">>)
    ELSE CheckResponse(fr, received)

\* The outcome of the call once the read has returned (received, rerr).
AfterRead(fr, received, rerr) ==
    IF rerr # "nil"
    THEN Result(<<>>, rerr, <<"RTU Read Err">>)
    ELSE CheckResponse(fr, received)

\* The read of thread t returns rerr with received in the buffer; the call
\* runs to its end.
Receive(t, rerr, received) ==
    /\ pc[t] = "read"
    /\ LET r == AfterRead(frame[t], received, rerr)
       IN  /\ io' = [io EXCEPT ![t] = Append(io[t], IO("read", rerr))]
           /\ response' = [response EXCEPT ![t] = received]
           /\ pc' = [pc EXCEPT ![t] = IF r.panic THEN "panic" ELSE "done"]
           /\ ret' = [ret EXCEPT ![t] = [bytes |-> r.bytes, err |-> r.err]]
           /\ log' = [log EXCEPT ![t] = Logged(t, r.log)]
    /\ line' = IF line = <<>> THEN line ELSE Tail(line)
    /\ UNCHANGED << ctx, args, frame, adu >>

\* n, rerr := rtu.Read(response), and the rest of the call
TransportRead(t) ==
    /\ pc[t] = "read"
    /\ \E rerr \in {"nil", "read error"} :
         \E received \in IF rerr = "nil"
                         THEN Replies(Answered(t).addr, Answered(t).fc)
                         ELSE FailedReads(Answered(t).addr, Answered(t).fc) :
            Receive(t, rerr, received)

\* The call has returned ret[t]; the caller may issue the next transaction.
Return(t) ==
    /\ pc[t] = "done"
    /\ pc' = [pc EXCEPT ![t] = "idle"]
    /\ args' = [args EXCEPT ![t] = NoArgs]
    /\ frame' = [frame EXCEPT ![t] = NoFrame]
    /\ adu' = [adu EXCEPT ![t] = <<>>]
    /\ io' = [io EXCEPT ![t] = <<>>]
    /\ response' = [response EXCEPT ![t] = <<>>]
    /\ ret' = [ret EXCEPT ![t] = NoRet]
    /\ log' = [log EXCEPT ![t] = <<>>]
    /\ UNCHANGED << ctx, line >>

\* The call of thread t has ended, by returning or by panicking.
Ended(t) == pc[t] \in {"done", "panic"}

(***************************************************************************)
(* The single-threaded caller of section 5: one transaction at a time.     *)
(***************************************************************************)
\* ConnectRTU: the context of an open connection.
Init ==
    /\ ctx \in [SlaveAddress : AddrSet, Debug : BOOLEAN]
    /\ pc = [t \in Threads |-> "idle"]
    /\ args = [t \in Threads |-> NoArgs]
    /\ frame = [t \in Threads |-> NoFrame]
    /\ adu = [t \in Threads |-> <<>>]
    /\ io = [t \in Threads |-> <<>>]
    /\ response = [t \in Threads |-> <<>>]
    /\ ret = [t \in Threads |-> NoRet]
    /\ log = [t \in Threads |-> <<>>]
    /\ line = <<>>

Next ==
    \/ RTURead(MainThread)
    \/ RTUWrite(MainThread)
    \/ TransportWrite(MainThread)
    \/ SettleDelay(MainThread)
    \/ TransportRead(MainThread)
    \/ Return(MainThread)

Spec == Init /\ [][Next]_vars

(***************************************************************************)
(* The same caller on a connection to any slave address, with the replies  *)
(* at the two ends of the read count: below the smallest frame, and the    *)
(* whole response buffer.                                                   *)
(***************************************************************************)
WideAddrSet == 0..255

InitWide ==
    /\ ctx \in [SlaveAddress : WideAddrSet, Debug : {FALSE}]
    /\ pc = [t \in Threads |-> "idle"]
    /\ args = [t \in Threads |-> NoArgs]
    /\ frame = [t \in Threads |-> NoFrame]
    /\ adu = [t \in Threads |-> <<>>]
    /\ io = [t \in Threads |-> <<>>]
    /\ response = [t \in Threads |-> <<>>]
    /\ ret = [t \in Threads |-> NoRet]
    /\ log = [t \in Threads |-> <<>>]
    /\ line = <<>>

\* The replies of fewer than four bytes, and those that fill the buffer.
EdgeReplies(addr, fc) ==
    {<<>>, <<addr>>, <<OtherAddr(addr)>>}
    \cup { h \o tl : h \in Heads(addr, fc),
                     tl \in {<<>>} \cup { <<e>> : e \in TailFirst } }
    \cup ShortSealed(addr, fc)
    \cup FullReplies(addr, fc)

\* n, rerr := rtu.Read(response) with n < 4 or n = RTU_FRAME_MAXSIZE, and the
\* rest of the call
EdgeRead(t) ==
    /\ pc[t] = "read"
    /\ \E rerr \in {"nil", "read error"} :
         \E received \in IF rerr = "nil"
                         THEN EdgeReplies(Answered(t).addr, Answered(t).fc)
                         ELSE FailedReads(Answered(t).addr, Answered(t).fc) :
            Receive(t, rerr, received)

NextWide ==
    \/ RTURead(MainThread) /\ args'[MainThread].startRegister = 107
    \/ RTUWrite(MainThread) /\ args'[MainThread].startRegister = 107
                            /\ args'[MainThread].data = <<>>
    \/ TransportWrite(MainThread)
    \/ SettleDelay(MainThread)
    \/ EdgeRead(MainThread)
    \/ Return(MainThread)

SpecWide == InitWide /\ [][NextWide]_vars

(***************************************************************************)
(* Two runs of one transaction: the first with the debug flag off, then    *)
(* the caller sets RTUConfig.Debug and a second thread repeats the call    *)
(* against a transport that behaves as it did in the first run.            *)
(***************************************************************************)
SecondThread == "second"

InitPair == Init /\ ~ctx.Debug

\* rtu.Debug = true, once the first run has ended.
SetDebug ==
    /\ Ended(MainThread)
    /\ ~ctx.Debug
    /\ ctx' = [ctx EXCEPT !.Debug = TRUE]
    /\ UNCHANGED << pc, args, frame, adu, io, response, ret, log, line >>

\* The second run: the call of the first, with the same arguments.
RepeatCall(t) ==
    /\ ctx.Debug
    /\ viaRTU(t, args[MainThread].fnValidator, args[MainThread].functionCode,
              args[MainThread].startRegister, args[MainThread].numRegisters,
              args[MainThread].data)

\* The write of the second run fails if and only if the first run's did.
RepeatWrite(t) ==
    /\ TransportWrite(t)
    /\ io[MainThread] # <<>> => io'[t][1].err = io[MainThread][1].err

\* The read of the second run returns what the first run's returned.
RepeatRead(t) ==
    /\ pc[t] = "read"
    /\ IF Len(io[MainThread]) >= 3
       THEN Receive(t, io[MainThread][3].err, response[MainThread])
       ELSE TransportRead(t)

NextPair ==
    \/ RTURead(MainThread) /\ args'[MainThread].startRegister = 107
    \/ RTUWrite(MainThread) /\ args'[MainThread].startRegister = 107
    \/ TransportWrite(MainThread)
    \/ SettleDelay(MainThread)
    \/ TransportRead(MainThread)
    \/ SetDebug
    \/ RepeatCall(SecondThread)
    \/ RepeatWrite(SecondThread)
    \/ SettleDelay(SecondThread)
    \/ RepeatRead(SecondThread)

SpecPair == InitPair /\ [][NextPair]_vars

(***************************************************************************)
(* Two threads calling on the same context without a lock of their own:    *)
(* one reads holding registers, the other writes a single register.  The   *)
(* slave answers each request on the line, in the order of the writes.     *)
(***************************************************************************)
\* What the slave at addr answers to a request with function code fc: a
\* normal reply or an exception reply, with a good checksum.
SlaveReplies(addr, fc) ==
    { Sealed(<<addr, fc, 2, 42>>, 0, 0), Sealed(<<addr, HighBitSet(fc), 2>>, 0, 0) }

\* n, rerr := rtu.Read(response): the answer to the oldest request on the
\* line, or an error.
LineRead(t) ==
    /\ pc[t] = "read"
    /\ \E rerr \in {"nil", "read error"} :
         \E received \in IF rerr = "nil"
                         THEN SlaveReplies(Answered(t).addr, Answered(t).fc)
                         ELSE {<<>>} :
            Receive(t, rerr, received)

NextConc ==
    \/ /\ RTURead(MainThread)
       /\ args'[MainThread].functionCode = FUNCTION_READ_HOLDING_REGISTERS
       /\ args'[MainThread].startRegister = 107
    \/ /\ RTUWrite(SecondThread)
       /\ args'[SecondThread].functionCode = FUNCTION_WRITE_SINGLE_REGISTER
       /\ args'[SecondThread].startRegister = 107
       /\ args'[SecondThread].data = <<255, 0>>
    \/ \E t \in Threads : TransportWrite(t)
    \/ \E t \in Threads : SettleDelay(t)
    \/ \E t \in Threads : LineRead(t)
    \/ \E t \in Threads : Return(t)

SpecConc == Init /\ [][NextConc]_vars

(***************************************************************************)
(* The frame codec called on its own: GenerateRTUFrame is a method of the  *)
(* exported RTUFrame, so any frame may be encoded, not only those viaRTU   *)
(* assembles.                                                              *)
(***************************************************************************)
FrameSet ==
    { [SlaveAddress |-> a, FunctionCode |-> f, StartRegister |-> r[1],
       NumberOfRegisters |-> r[2], Data |-> d] :
         a \in AddrSet, f \in FuncSet, r \in RegSet, d \in CodecDataSet }

\* adu := frame.GenerateRTUFrame()
EncodeFrame(t) ==
    /\ pc[t] = "idle"
    /\ \E fr \in FrameSet :
          LET enc == GenerateRTUFrame(fr)
          IN  /\ frame' = [frame EXCEPT ![t] = fr]
              /\ adu' = [adu EXCEPT ![t] = enc.adu]
              /\ pc' = [pc EXCEPT ![t] = IF enc.panic THEN "panic" ELSE "encoded"]
    /\ UNCHANGED << ctx, args, io, response, ret, log, line >>

\* The caller drops the frame and the ADU.
DropFrame(t) ==
    /\ pc[t] = "encoded"
    /\ pc' = [pc EXCEPT ![t] = "idle"]
    /\ frame' = [frame EXCEPT ![t] = NoFrame]
    /\ adu' = [adu EXCEPT ![t] = <<>>]
    /\ UNCHANGED << ctx, args, io, response, ret, log, line >>

NextCodec ==
    \/ EncodeFrame(MainThread)
    \/ DropFrame(MainThread)

SpecCodec == Init /\ [][NextCodec]_vars

(***************************************************************************)
(* Properties.                                                             *)
(***************************************************************************)
\* The call of thread t has written and read without a transport error.
Exchanged(t) ==
    /\ Len(io[t]) = 3
    /\ io[t][1].err = "nil"
    /\ io[t][3].err = "nil"

\* The validator of the call rejects its function code.
Rejected(a) ==
    \/ a.fnValidator = "ValidReadFunction" /\ ~ValidReadFunction(a.functionCode)
    \/ a.fnValidator = "ValidWriteFunction" /\ ~ValidWriteFunction(a.functionCode)

\* The last two bytes of b are the checksum of the bytes before them, low
\* byte first.
ChecksumOk(b) ==
    /\ Len(b) >= 2
    /\ LET c == crc(SubSeq(b, 1, Len(b) - 2))
       IN  /\ b[Len(b) - 1] = c % 256
           /\ b[Len(b)] = c \div 256

\* C1 - Admission: a call whose function code its validator rejects returns
\* "illegal function" with no bytes, and makes no transport call at all.
C1_Admission ==
    \A t \in Threads :
        (pc[t] \notin {"idle", "encoded"} /\ Rejected(args[t])) =>
            /\ pc[t] = "done"
            /\ ret[t] = [bytes |-> <<>>, err |-> "illegal function"]
            /\ io[t] = <<>>

\* A read-only function code has been submitted through the write path.
C1_Witness ==
    /\ pc[MainThread] = "done"
    /\ args[MainThread].fnValidator = "ValidWriteFunction"
    /\ args[MainThread].functionCode = FUNCTION_READ_HOLDING_REGISTERS
    /\ ret[MainThread].err = "illegal function"

\* C2 - Success: after a write and a read without error, a reply of n bytes
\* that starts with the slave address and the function code and ends with the
\* checksum of its first n-2 bytes is returned whole, with no error.
C2_Success ==
    \A t \in Threads :
        ( /\ Ended(t)
          /\ Exchanged(t)
          /\ Len(response[t]) >= 2
          /\ response[t][1] = ctx.SlaveAddress
          /\ response[t][2] = args[t].functionCode
          /\ ChecksumOk(response[t]) ) =>
            /\ pc[t] = "done"
            /\ ret[t] = [bytes |-> response[t], err |-> "nil"]

\* A valid reply with data bytes has been returned.
C2_Witness ==
    /\ pc[MainThread] = "done"
    /\ ret[MainThread].err = "nil"
    /\ Len(ret[MainThread].bytes) >= 5
    /\ ChecksumOk(response[MainThread])

\* The outcome the exception table gives for the third byte of an exception
\* reply.
C3_Expected(code) ==
    CASE code = 1 -> "illegal function"
      [] code = 2 -> "illegal data address"
      [] code = 3 -> "illegal data value"
      [] code = 4 -> "slave device failure"
      [] OTHER -> "unspecified"

\* C3 - Exception mapping: a reply that starts with the slave address and the
\* function code with its high bit set yields the outcome of its third byte
\* (0x01..0x04 mapped, anything else unspecified), and no bytes.
C3_ExceptionMapping ==
    \A t \in Threads :
        ( /\ Ended(t)
          /\ Exchanged(t)
          /\ Len(response[t]) >= 3
          /\ response[t][1] = ctx.SlaveAddress
          /\ response[t][2] = HighBitSet(args[t].functionCode) ) =>
            /\ pc[t] = "done"
            /\ ret[t] = [bytes |-> <<>>, err |-> C3_Expected(response[t][3])]

\* The reply [addr, func|0x80, 0x02] with its checksum has been classified.
C3_Witness ==
    /\ pc[MainThread] = "done"
    /\ Exchanged(MainThread)
    /\ response[MainThread] =
          Sealed(<<ctx.SlaveAddress, HighBitSet(args[MainThread].functionCode), 2>>, 0, 0)
    /\ ret[MainThread].err = "illegal data address"

\* C4 - Checksum failure: a reply of n bytes that starts with the slave
\* address and the function code, and whose last two bytes are not the
\* checksum of its first n-2 bytes, yields "bad checksum" with all n bytes.
C4_ChecksumFailure ==
    \A t \in Threads :
        ( /\ Ended(t)
          /\ Exchanged(t)
          /\ Len(response[t]) >= 2
          /\ response[t][1] = ctx.SlaveAddress
          /\ response[t][2] = args[t].functionCode
          /\ ~ChecksumOk(response[t]) ) =>
            /\ pc[t] = "done"
            /\ ret[t] = [bytes |-> response[t], err |-> "bad checksum"]

\* A reply whose checksum is wrong in its high byte only has been returned.
C4_Witness ==
    /\ pc[MainThread] = "done"
    /\ Exchanged(MainThread)
    /\ response[MainThread] =
          Sealed(<<ctx.SlaveAddress, args[MainThread].functionCode, 4, 42>>, 0, 1)
    /\ ret[MainThread] = [bytes |-> response[MainThread], err |-> "bad checksum"]

\* C5 - Address mismatch: a reply whose first byte is not the slave address
\* yields the unspecified exception and no bytes, whatever follows the first
\* byte.
C5_AddressMismatch ==
    \A t \in Threads :
        ( /\ Ended(t)
          /\ Exchanged(t)
          /\ Len(response[t]) >= 1
          /\ response[t][1] # ctx.SlaveAddress ) =>
            /\ pc[t] = "done"
            /\ ret[t] = [bytes |-> <<>>, err |-> "unspecified"]

\* A well-formed exception reply of another slave has been classified.
C5_Witness ==
    /\ pc[MainThread] = "done"
    /\ Exchanged(MainThread)
    /\ response[MainThread] =
          Sealed(<<OtherAddr(ctx.SlaveAddress),
                   HighBitSet(args[MainThread].functionCode), 2>>, 0, 0)
    /\ ret[MainThread].err = "unspecified"

\* The names of the transport calls of thread t, in order.
Calls(t) == [i \in 1..Len(io[t]) |-> io[t][i].call]

\* C6 - One exchange per call, in order: a call writes at most once, then
\* sleeps, then reads at most once; it sleeps and reads only after a write
\* without error, and nothing follows a read.
C6_OneExchange ==
    \A t \in Threads :
        /\ Calls(t) \in { <<>>, <<"write">>, <<"write", "sleep">>,
                          <<"write", "sleep", "read">> }
        /\ Len(io[t]) >= 2 => io[t][1].err = "nil"

\* A call has ended on a read error after one write, one sleep and one read.
C6_Witness ==
    /\ pc[MainThread] = "done"
    /\ Calls(MainThread) = <<"write", "sleep", "read">>
    /\ io[MainThread][3].err = "read error"

\* C7 - Transport errors: a failed write ends the call with the write's error
\* and no bytes, before any sleep or read; a failed read ends it with the
\* read's error and no bytes, whatever the buffer holds.
C7_TransportErrors ==
    \A t \in Threads :
        /\ (Len(io[t]) >= 1 /\ io[t][1].err # "nil") =>
              /\ pc[t] = "done"
              /\ Len(io[t]) = 1
              /\ ret[t] = [bytes |-> <<>>, err |-> io[t][1].err]
        /\ (Len(io[t]) >= 3 /\ io[t][3].err # "nil") =>
              /\ pc[t] = "done"
              /\ ret[t] = [bytes |-> <<>>, err |-> io[t][3].err]

\* A read has failed while the buffer held a valid reply.
C7_Witness ==
    /\ pc[MainThread] = "done"
    /\ Len(io[MainThread]) = 3
    /\ io[MainThread][3].err = "read error"
    /\ response[MainThread] # <<>>
    /\ ChecksumOk(response[MainThread])
    /\ ret[MainThread].err = "read error"

\* The kinds of outcome of section 7 that the completed call of t shows.
C8_Kinds(t) ==
    { k \in {"success", "admission", "transport", "protocol", "checksum"} :
        CASE k = "success" -> Exchanged(t) /\ ret[t].err = "nil"
          [] k = "admission" -> io[t] = <<>> /\ ret[t].err = "illegal function"
          [] k = "transport" ->
                /\ io[t] # <<>>
                /\ io[t][Len(io[t])].err # "nil"
                /\ ret[t].err = io[t][Len(io[t])].err
          [] k = "protocol" ->
                /\ Exchanged(t)
                /\ ret[t].err \in {"illegal function", "illegal data address",
                                   "illegal data value", "slave device failure",
                                   "unspecified"}
          [] OTHER -> Exchanged(t) /\ ret[t].err = "bad checksum" }

\* C8 - No partial success: a completed call shows exactly one kind of
\* outcome; it has no error only if address, function code and checksum of
\* the reply were all valid; and it returns bytes only on success or on a
\* checksum error.
C8_NoPartialSuccess ==
    \A t \in Threads :
        pc[t] = "done" =>
            /\ Cardinality(C8_Kinds(t)) = 1
            /\ ret[t].err = "nil" =>
                  /\ Len(response[t]) >= 2
                  /\ response[t][1] = ctx.SlaveAddress
                  /\ response[t][2] = args[t].functionCode
                  /\ ChecksumOk(response[t])
            /\ ret[t].bytes # <<>> => C8_Kinds(t) \subseteq {"success", "checksum"}

\* A call has completed with a slave exception.
C8_Witness ==
    /\ pc[MainThread] = "done"
    /\ C8_Kinds(MainThread) = {"protocol"}
    /\ ret[MainThread].err = "slave device failure"

\* The encoded frame without its two checksum bytes, but for the value of the
\* length byte: the fields before the payload, and the payload.
C9_Fields(fr) ==
    LET start == << fr.StartRegister \div 256, fr.StartRegister % 256 >>
        count == << fr.NumberOfRegisters \div 256, fr.NumberOfRegisters % 256 >>
    IN  << fr.SlaveAddress, fr.FunctionCode >> \o start \o
        (IF fr.FunctionCode \in {FUNCTION_WRITE_SINGLE_COIL,
                                 FUNCTION_WRITE_SINGLE_REGISTER}
         THEN <<>> ELSE count)

\* C9 - Layout selection: an encoded frame is address, function, start (big
\* endian), then the payload for the single-coil and single-register write
\* codes; count (big endian), one length byte and the payload for the
\* multiple-registers write code; count and the payload for any other code;
\* then two checksum bytes.  Its length is 6, 9 or 8 plus the payload's.
C9_Layout ==
    \A t \in Threads :
        pc[t] = "encoded" =>
            LET fr == frame[t]
                fields == C9_Fields(fr)
                skip == IF fr.FunctionCode = FUNCTION_WRITE_MULTIPLE_REGISTERS
                        THEN 1 ELSE 0
                base == CASE fr.FunctionCode \in {FUNCTION_WRITE_SINGLE_COIL,
                                                  FUNCTION_WRITE_SINGLE_REGISTER} -> 6
                          [] fr.FunctionCode = FUNCTION_WRITE_MULTIPLE_REGISTERS -> 9
                          [] OTHER -> 8
            IN  /\ Len(adu[t]) = base + Len(fr.Data)
                /\ Len(adu[t]) = Len(fields) + skip + Len(fr.Data) + 2
                /\ SubSeq(adu[t], 1, Len(fields)) = fields
                /\ SubSeq(adu[t], Len(fields) + skip + 1, Len(adu[t]) - 2) = fr.Data

\* A multiple-registers write with a payload has been encoded.
C9_Witness ==
    /\ pc[MainThread] = "encoded"
    /\ frame[MainThread].FunctionCode = FUNCTION_WRITE_MULTIPLE_REGISTERS
    /\ frame[MainThread].StartRegister = 363
    /\ Len(frame[MainThread].Data) = 4
    /\ Len(adu[MainThread]) = 13

\* C10 - Checksum round trip: the last two bytes of an encoded frame are the
\* checksum of the bytes before them, low byte first, so the frame passes the
\* checksum test the transaction applies to replies.
C10_RoundTrip ==
    \A t \in Threads :
        pc[t] = "encoded" =>
            /\ ChecksumOk(adu[t])
            /\ ConfirmChecksum(adu[t]).err = "nil"

\* A single-register write with a payload has been encoded and sealed; its two
\* checksum bytes differ, so their order matters.
C10_Witness ==
    /\ pc[MainThread] = "encoded"
    /\ frame[MainThread].FunctionCode = FUNCTION_WRITE_SINGLE_REGISTER
    /\ frame[MainThread].Data # <<>>
    /\ adu[MainThread][Len(adu[MainThread])] # adu[MainThread][Len(adu[MainThread]) - 1]
    /\ ChecksumOk(adu[MainThread])

\* C11 - Reference vector: the request {address 0x11, function 0x03, start
\* 0x006B, count 3, no payload} encodes to exactly 11 03 00 6B 00 03 76 87:
\* the checksum of 11 03 00 6B 00 03 is 0x8776, and the checksum of the empty
\* byte sequence is 0xFFFF.
C11_ReferenceVector ==
    /\ crc(<<17, 3, 0, 107, 0, 3>>) = 34678
    /\ crc(<<>>) = 65535
    /\ \A t \in Threads :
          ( /\ pc[t] \in {"encoded", "panic"}
            /\ frame[t] = [SlaveAddress |-> 17,
                           FunctionCode |-> FUNCTION_READ_HOLDING_REGISTERS,
                           StartRegister |-> 107, NumberOfRegisters |-> 3,
                           Data |-> <<>>] ) =>
              /\ pc[t] = "encoded"
              /\ adu[t] = <<17, 3, 0, 107, 0, 3, 118, 135>>

\* The reference request has been encoded.
C11_Witness ==
    /\ pc[MainThread] = "encoded"
    /\ frame[MainThread].SlaveAddress = 17
    /\ frame[MainThread].FunctionCode = FUNCTION_READ_HOLDING_REGISTERS
    /\ frame[MainThread].StartRegister = 107
    /\ frame[MainThread].NumberOfRegisters = 3
    /\ frame[MainThread].Data = <<>>
    /\ Len(adu[MainThread]) = 8

\* C12 - Size bound: for every frame and every payload length the codec
\* returns an ADU of at most RTU_FRAME_MAXSIZE bytes; a payload that would
\* overflow that size is rejected or truncated, so no encoding ends on an
\* access outside the frame buffer.
C12_SizeBound ==
    \A t \in Threads :
        frame[t] # NoFrame =>
            /\ pc[t] # "panic"
            /\ Len(adu[t]) <= RTU_FRAME_MAXSIZE

\* C14 - Length byte: in every frame encoded for the multiple-registers
\* write code, the byte immediately before the payload equals the number of
\* payload bytes, for every payload length the frame buffer holds.
C14_LengthByte ==
    \A t \in Threads :
        ( /\ pc[t] = "encoded"
          /\ frame[t].FunctionCode = FUNCTION_WRITE_MULTIPLE_REGISTERS ) =>
            adu[t][7] = Len(frame[t].Data)

\* C13 - Short replies rejected: when the read delivers fewer than four
\* bytes, whatever they are, the call ends with an error and never with
\* success.
C13_ShortReplies ==
    \A t \in Threads :
        ( /\ Ended(t)
          /\ Len(io[t]) = 3
          /\ Len(response[t]) < 4 ) =>
            /\ pc[t] = "done"
            /\ ret[t].err \notin {"nil", "none"}

\* A three-byte reply with the right address and function code, whose third
\* byte is the high checksum byte of the first, has been classified for a
\* slave address other than the two of the single-threaded caller.
C13_Witness ==
    /\ pc[MainThread] = "done"
    /\ Exchanged(MainThread)
    /\ ctx.SlaveAddress \notin AddrSet
    /\ response[MainThread] =
          << ctx.SlaveAddress, args[MainThread].functionCode,
             crc(<< ctx.SlaveAddress >>) \div 256 >>
    /\ ret[MainThread].err = "bad checksum"

\* C18 - No out-of-range access on replies: for every admitted function
\* code, slave address, read count and reply content, classification ends
\* without an index or slice out of range; with fewer than two bytes read
\* the checksum step is not reached, the outcome being the unspecified
\* exception of the validity check.
C18_NoOutOfRange ==
    \A t \in Threads :
        /\ ~(pc[t] = "panic" /\ io[t] # <<>>)
        /\ ( /\ Ended(t)
             /\ Exchanged(t)
             /\ Len(response[t]) < 2 ) =>
               ret[t] = [bytes |-> <<>>, err |-> "unspecified"]

\* A read of zero bytes has been classified on a connection to slave address
\* 0, the value the zero-initialised buffer holds at index 0.
C18_Witness ==
    /\ pc[MainThread] = "done"
    /\ Exchanged(MainThread)
    /\ ctx.SlaveAddress = 0
    /\ response[MainThread] = <<>>
    /\ ret[MainThread].err = "unspecified"

\* C17 - Classification priority: address and function code are validated
\* before the checksum and independently of it.  A reply whose first two
\* bytes do not both match the request yields a protocol exception that its
\* first three bytes alone determine (the mapped exception for the address
\* and the function code with its high bit set, else unspecified), whatever
\* its checksum bytes; and "bad checksum" is returned only when address and
\* function code both match.
C17_ClassificationPriority ==
    \A t \in Threads :
        (Ended(t) /\ Exchanged(t)) =>
            LET addrOk == At(response[t], 0) = frame[t].SlaveAddress
                funcOk == At(response[t], 1) = frame[t].FunctionCode
                excOk == (At(response[t], 1) % 128) = frame[t].FunctionCode
            IN  /\ ~(addrOk /\ funcOk) =>
                      /\ pc[t] = "done"
                      /\ ret[t].bytes = <<>>
                      /\ ret[t].err = IF addrOk /\ excOk
                                      THEN C3_Expected(At(response[t], 2))
                                      ELSE "unspecified"
                /\ ret[t].err = "bad checksum" => addrOk /\ funcOk

\* A slave exception reply whose checksum is corrupted has yielded the mapped
\* exception.
C17_Witness ==
    /\ pc[MainThread] = "done"
    /\ Exchanged(MainThread)
    /\ response[MainThread] =
          Sealed(<<ctx.SlaveAddress, HighBitSet(args[MainThread].functionCode), 3>>, 1, 0)
    /\ ~ChecksumOk(response[MainThread])
    /\ ret[MainThread] = [bytes |-> <<>>, err |-> "illegal data value"]

\* C15 - Debug non-interference: two runs of a transaction that differ only
\* in the debug flag (same call, same transport errors, same reply bytes)
\* make the same transport calls with the same results, write the same
\* bytes, and return the same bytes and the same outcome.
C15_DebugNonInterference ==
    (Ended(MainThread) /\ Ended(SecondThread)) =>
        /\ args[SecondThread] = args[MainThread]
        /\ io[SecondThread] = io[MainThread]
        /\ adu[SecondThread] = adu[MainThread]
        /\ ret[SecondThread] = ret[MainThread]
        /\ pc[SecondThread] = pc[MainThread]

\* Both runs have ended on a read error; only the run with the debug flag
\* set has logged, the frame sent and the failing branch.
C15_Witness ==
    /\ pc[MainThread] = "done"
    /\ pc[SecondThread] = "done"
    /\ ctx.Debug
    /\ Len(io[SecondThread]) = 3
    /\ io[SecondThread][3].err = "read error"
    /\ log[MainThread] = <<>>
    /\ Len(log[SecondThread]) = 2
    /\ ret[SecondThread] = ret[MainThread]

\* C16 - No internal serialization: with two transactions issued on the same
\* context, no transport step of a call waits for the other call: whatever
\* the other thread's position, a thread that has encoded its request may
\* write it, then sleep, and its read may return.  So both may have written
\* before either reads, and the read of one then takes the reply to the
\* other's request.
C16_NoSerialization ==
    \A t \in Threads :
        /\ pc[t] = "write" => ENABLED TransportWrite(t)
        /\ pc[t] = "sleep" => ENABLED SettleDelay(t)
        /\ pc[t] = "read" => ENABLED Receive(t, "read error", <<>>)

\* Both threads have written their request and neither has read; the thread
\* about to read is the one that wrote last, so its read returns the reply
\* to the other thread's request.
C16_Witness ==
    /\ pc[MainThread] \in {"sleep", "read"}
    /\ pc[SecondThread] = "read"
    /\ \A t \in Threads : io[t] # <<>> /\ io[t][1].err = "nil"
    /\ \A t \in Threads : Len(io[t]) <= 2
    /\ Len(line) = 2
    /\ line[1].writer = MainThread
    /\ line[2].writer = SecondThread
    /\ Answered(SecondThread).fc = frame[MainThread].FunctionCode
    /\ Answered(SecondThread).fc # frame[SecondThread].FunctionCode

====
